---- MODULE Spec2Model ----
(***************************************************************************)
(* Model of the sheet synchronisation logic of SP_LabDataSheet             *)
(* (src/app.py): check_exp_code_in_sheet, append_to_sheet and the          *)
(* flatten / reconstruct pair used by append_to_sheet and                  *)
(* page_batch_export; and of the pages of the app as script runs over      *)
(* st.session_state (main, the template page and its render pass, the      *)
(* batch export page, export_to_word of src/exporter.py).                  *)
(*                                                                         *)
(* Representation.                                                         *)
(*  - A Python str is a sequence of symbols (one-character strings, or a   *)
(*    whole word standing for an unbreakable run of ordinary characters).  *)
(*    The empty str is <<>>.                                               *)
(*  - A Python value is a tagged tuple: <<"str", s>>, <<"int", n>>,        *)
(*    <<"none">>, <<"list", items>>, <<"dict", pairs>>.                    *)
(*  - A dict is a sequence of <<key, value>> pairs (insertion order).      *)
(*  - A worksheet is a grid: a sequence of rows, each a sequence of cell   *)
(*    strs; a cell outside the stored extent reads as the empty str.      *)
(*    Row 1 is the header.  gspread's readers strip trailing empty cells. *)
(*  - The remote store raises on the f-th store call of an operation      *)
(*    (f = 0: no call raises; f = SheetNotFound: open_by_url raises        *)
(*    SpreadsheetNotFound).                                                *)
(***************************************************************************)
EXTENDS Integers, Sequences, FiniteSets, TLC

VARIABLES store, last, sess, rt, session_state, screen, config

vars == <<store, last, sess, rt, session_state, screen, config>>

\* the variables of the template pages (st.session_state, what the last
\* script run put on the page, config.json)
uivars == <<session_state, screen, config>>

----------------------------------------------------------------------------
(* Bounds *)

\* largest number of rows (header included) a worksheet may hold before
\* further appends are no longer explored
MaxRows == 3


\* longest table (list of rows) a record of the round-trip check carries
MaxItems == 2

----------------------------------------------------------------------------
(* Python helpers *)

EmptyStr == <<>>

Max(a, b) == IF a >= b THEN a ELSE b

\* x in seq
In(x, seq) == \E i \in 1..Len(seq) : seq[i] = x

\* seq.index(x) + 1 : the 1-based position of the first occurrence
IndexOf(seq, x) == CHOOSE i \in 1..Len(seq) : seq[i] = x /\ \A j \in 1..(i-1) : seq[j] # x

\* the keys of a dict, in insertion order (df.columns)
Keys(d) == [i \in 1..Len(d) |-> d[i][1]]

HasKey(d, k) == In(k, Keys(d))

\* d[k]
Lookup(d, k) == d[IndexOf(Keys(d), k)][2]

\* the field names used by the templates
exp_code == <<"exp_code">>
date == <<"date">>
note == <<"note">>
cathode_table == <<"cathode_table">>

----------------------------------------------------------------------------
(* json.dumps(value, ensure_ascii=False) and json.loads(text),              *)
(* over symbol sequences.  DQ and BS stand for the characters " and \,      *)
(* NL for a newline; "[", "]", "{", "}", ",", ":", " " and the digits are   *)
(* themselves; any other symbol is a run of ordinary characters.            *)

DQ == "dquote"
BS == "backslash"
NL == "newline"

Digits == <<"0", "1", "2", "3", "4", "5", "6", "7", "8", "9">>

IsDigit(ch) == In(ch, Digits)

DigitValue(ch) == IndexOf(Digits, ch) - 1

\* the decimal digits of a natural number
RECURSIVE NatToStr(_)
NatToStr(n) ==
    IF n < 10 THEN <<Digits[n + 1]>>
    ELSE NatToStr(n \div 10) \o <<Digits[(n % 10) + 1]>>

IntToStr(n) == IF n < 0 THEN <<"-">> \o NatToStr(0 - n) ELSE NatToStr(n)

\* (variant) the text is put between the quotes as it is
Escape_raw(s) == s

\* the body of a JSON string literal: " and \ are escaped with a
\* backslash, a newline becomes \n
RECURSIVE Escape(_)
Escape(s) ==
    IF s = <<>> THEN <<>>
    ELSE (CASE Head(s) = DQ -> <<BS, DQ>>
            [] Head(s) = BS -> <<BS, BS>>
            [] Head(s) = NL -> <<BS, "n">>
            [] OTHER -> <<Head(s)>>) \o Escape(Tail(s))

RECURSIVE json_dumps(_)
RECURSIVE DumpItems(_)
RECURSIVE DumpMembers(_)

\* the elements of a list, separated by ", "
DumpItems(items) ==
    IF items = <<>> THEN <<>>
    ELSE json_dumps(Head(items))
         \o (IF Len(items) > 1 THEN <<",", " ">> \o DumpItems(Tail(items)) ELSE <<>>)

\* the members of a dict: "key": value, separated by ", "
DumpMembers(pairs) ==
    IF pairs = <<>> THEN <<>>
    ELSE <<DQ>> \o Escape(Head(pairs)[1]) \o <<DQ, ":", " ">> \o json_dumps(Head(pairs)[2])
         \o (IF Len(pairs) > 1 THEN <<",", " ">> \o DumpMembers(Tail(pairs)) ELSE <<>>)

json_dumps(v) ==
    CASE v[1] = "str"  -> <<DQ>> \o Escape(v[2]) \o <<DQ>>
      [] v[1] = "int"  -> IntToStr(v[2])
      [] v[1] = "none" -> <<"null">>
      [] v[1] = "list" -> <<"[">> \o DumpItems(v[2]) \o <<"]">>
      [] v[1] = "dict" -> <<"{">> \o DumpMembers(v[2]) \o <<"}">>

\* a parse result: ok, the value, and the position after it
ParseFail == [ok |-> FALSE, v |-> <<"none">>, i |-> 0]
ParseOk(v, i) == [ok |-> TRUE, v |-> v, i |-> i]

At(s, i) == IF i \in 1..Len(s) THEN s[i] ELSE "EOF"

RECURSIVE SkipWs(_, _)
SkipWs(s, i) == IF At(s, i) = " " THEN SkipWs(s, i + 1) ELSE i

\* the characters of a string literal from position i (after the opening
\* quote) up to the closing quote; acc is what has been decoded so far
RECURSIVE ScanString(_, _, _)
ScanString(s, i, acc) ==
    CASE At(s, i) = "EOF" -> ParseFail
      [] At(s, i) = DQ -> ParseOk(<<"str", acc>>, i + 1)
      [] At(s, i) = NL -> ParseFail
      [] At(s, i) = BS ->
            (CASE At(s, i + 1) = DQ -> ScanString(s, i + 2, Append(acc, DQ))
               [] At(s, i + 1) = BS -> ScanString(s, i + 2, Append(acc, BS))
               [] At(s, i + 1) = "n" -> ScanString(s, i + 2, Append(acc, NL))
               [] OTHER -> ParseFail)
      [] OTHER -> ScanString(s, i + 1, Append(acc, At(s, i)))

\* the digits of a number from position i; acc is the value so far
RECURSIVE ScanDigits(_, _, _)
ScanDigits(s, i, acc) ==
    IF IsDigit(At(s, i)) THEN ScanDigits(s, i + 1, 10 * acc + DigitValue(At(s, i)))
    ELSE ParseOk(<<"int", acc>>, i)

\* a JSON integer: an optional minus sign, then 0 or a digit run that does
\* not start with 0
ScanNumber(s, i) ==
    LET neg == At(s, i) = "-"
        j == IF neg THEN i + 1 ELSE i
        r == IF At(s, j) = "0" THEN ParseOk(<<"int", 0>>, j + 1)
             ELSE IF IsDigit(At(s, j)) THEN ScanDigits(s, j, 0)
             ELSE ParseFail
    IN  IF r.ok /\ neg THEN ParseOk(<<"int", 0 - r.v[2]>>, r.i) ELSE r

RECURSIVE ParseValue(_, _)
RECURSIVE ParseItems(_, _, _)
RECURSIVE ParseMembers(_, _, _)

\* the elements of an array from position i (after "[" or ","); acc holds
\* the elements decoded so far
ParseItems(s, i, acc) ==
    LET r == ParseValue(s, SkipWs(s, i))
        j == SkipWs(s, r.i)
    IN  IF ~r.ok THEN ParseFail
        ELSE CASE At(s, j) = "," -> ParseItems(s, j + 1, Append(acc, r.v))
               [] At(s, j) = "]" -> ParseOk(<<"list", Append(acc, r.v)>>, j + 1)
               [] OTHER -> ParseFail

\* the members of an object from position i (after "{" or ",")
ParseMembers(s, i, acc) ==
    LET k0 == SkipWs(s, i)
        k == IF At(s, k0) = DQ THEN ScanString(s, k0 + 1, <<>>) ELSE ParseFail
        c == SkipWs(s, k.i)
        r == IF k.ok /\ At(s, c) = ":" THEN ParseValue(s, SkipWs(s, c + 1)) ELSE ParseFail
        j == SkipWs(s, r.i)
    IN  IF ~r.ok THEN ParseFail
        ELSE CASE At(s, j) = "," -> ParseMembers(s, j + 1, Append(acc, <<k.v[2], r.v>>))
               [] At(s, j) = "}" -> ParseOk(<<"dict", Append(acc, <<k.v[2], r.v>>)>>, j + 1)
               [] OTHER -> ParseFail

ParseValue(s, i) ==
    CASE At(s, i) = DQ -> ScanString(s, i + 1, <<>>)
      [] At(s, i) = "null" -> ParseOk(<<"none">>, i + 1)
      [] At(s, i) = "-" \/ IsDigit(At(s, i)) -> ScanNumber(s, i)
      [] At(s, i) = "[" ->
            IF At(s, SkipWs(s, i + 1)) = "]"
            THEN ParseOk(<<"list", <<>> >>, SkipWs(s, i + 1) + 1)
            ELSE ParseItems(s, i + 1, <<>>)
      [] At(s, i) = "{" ->
            IF At(s, SkipWs(s, i + 1)) = "}"
            THEN ParseOk(<<"dict", <<>> >>, SkipWs(s, i + 1) + 1)
            ELSE ParseMembers(s, i + 1, <<>>)
      [] OTHER -> ParseFail

\* json.loads(text): the whole text must be one value; ok = FALSE stands
\* for json.JSONDecodeError
json_loads(s) ==
    LET r == ParseValue(s, SkipWs(s, 1))
    IN  IF r.ok /\ SkipWs(s, r.i) = Len(s) + 1 THEN r ELSE ParseFail

\* value.startswith('[') and value.endswith(']')
Bracketed(s) == s # <<>> /\ s[1] = "[" /\ s[Len(s)] = "]"

\* append_to_sheet's flattening of one value: a list becomes its JSON text,
\* anything else passes through
flat_value(value) ==
    IF value[1] = "list" THEN <<"str", json_dumps(value)>> ELSE value

\* flat_data = {key: json.dumps(value) if isinstance(value, list) else value ...}
flat_data(data_dict) ==
    [i \in 1..Len(data_dict) |-> <<data_dict[i][1], flat_value(data_dict[i][2])>>]

\* page_batch_export's decoding of one value of a record read back
reconstructed_value(value) ==
    IF value[1] = "str" /\ Bracketed(value[2])
    THEN LET r == json_loads(value[2]) IN IF r.ok THEN r.v ELSE value
    ELSE value

\* reconstructed_record
reconstructed_record(record) ==
    [i \in 1..Len(record) |-> <<record[i][1], reconstructed_value(record[i][2])>>]

----------------------------------------------------------------------------
(* The remote tabular store (gspread worksheet), as used by src/app.py *)

Cell(rows, r, c) ==
    IF r \in 1..Len(rows) /\ c \in 1..Len(rows[r]) THEN rows[r][c] ELSE EmptyStr

\* gspread drops the trailing empty cells of what it reads
RECURSIVE RStrip(_)
RStrip(cells) ==
    IF cells # <<>> /\ cells[Len(cells)] = EmptyStr
    THEN RStrip(SubSeq(cells, 1, Len(cells) - 1))
    ELSE cells

\* sheet.row_values(r)
row_values(rows, r) ==
    IF r \in 1..Len(rows) THEN RStrip(rows[r]) ELSE <<>>

\* sheet.col_values(c)
col_values(rows, c) == RStrip([r \in 1..Len(rows) |-> Cell(rows, r, c)])

\* sheet.update(range starting at (r0, c0), values): overwrites the cells
\* of the range and leaves every other cell alone
update(rows, r0, c0, values) ==
    LET nr == Max(Len(rows), r0 + Len(values) - 1)
    IN  [r \in 1..nr |->
            LET old == IF r <= Len(rows) THEN rows[r] ELSE <<>>
                i == r - r0 + 1
            IN  IF i \in 1..Len(values)
                THEN [c \in 1..Max(Len(old), c0 + Len(values[i]) - 1) |->
                        IF c >= c0 /\ c - c0 + 1 <= Len(values[i])
                        THEN values[i][c - c0 + 1]
                        ELSE Cell(rows, r, c)]
                ELSE old]

\* sheet.append_rows(values): the rows are added below the last row
append_rows(rows, values) == rows \o values

\* the number of rows below the header
DataRows(rows) == IF Len(rows) > 0 THEN Len(rows) - 1 ELSE 0

\* spreadsheet.add_worksheet(title=worksheet_name, ...)
add_worksheet(st, worksheet_name) ==
    [st EXCEPT ![worksheet_name] = [exists |-> TRUE, rows |-> <<>>]]

----------------------------------------------------------------------------
(* Results and failures *)

\* the failure index that makes open_by_url raise SpreadsheetNotFound
SheetNotFound == -1

NoFailure == 0

\* the store call about to be made is the one that raises
Raises(calls, f) == f = Len(calls) + 1

\* a store call of the operation raised
Failed(calls, f) == f = SheetNotFound \/ (f >= 1 /\ f <= Len(calls))

\* a message: the text's identity and what it carries (a key, the
\* description of the exception)
Msg(kind, detail) == <<kind, detail>>

----------------------------------------------------------------------------
(* check_exp_code_in_sheet(client, sheet_url, exp_code, worksheet_name)     *)

Result(ok, msg, calls) == [ok |-> ok, msg |-> msg, calls |-> calls]

\* (variant) the header cell is left in: col_values(...) without [1:]
existing_codes_with_header(rows, header) == col_values(rows, IndexOf(header, exp_code))

\* (variant) the slice starts one row too low: col_values(...)[2:]
existing_codes_from_third_row(rows, header) ==
    LET col == col_values(rows, IndexOf(header, exp_code))
    IN  IF Len(col) >= 2 THEN Tail(Tail(col)) ELSE <<>>

\* existing_codes = sheet.col_values(exp_code_col_index)[1:]
existing_codes(rows, header) == Tail(col_values(rows, IndexOf(header, exp_code)))

\* (variant) a failing read of the key column is taken for "nothing found"
check_in_worksheet_swallow(rows, code, worksheet_name, f, calls) ==
    LET c1 == Append(calls, "row_values")
        header == row_values(rows, 1)
        c2 == Append(c1, "col_values")
    IN  IF Raises(calls, f) THEN Result(FALSE, Msg("check_error", "row_values"), c1)
        ELSE IF ~In(exp_code, header) THEN Result(TRUE, Msg("no_exp_code_column", worksheet_name), c1)
        ELSE IF Raises(c1, f) \/ ~In(code, existing_codes(rows, header))
             THEN Result(TRUE, Msg("available", code), c2)
             ELSE Result(FALSE, Msg("exists", code), c2)

\* (variant) a worksheet without the key column is refused
check_in_worksheet_strict(rows, code, worksheet_name, f, calls) ==
    LET c1 == Append(calls, "row_values")
        header == row_values(rows, 1)
        c2 == Append(c1, "col_values")
    IN  IF Raises(calls, f) THEN Result(FALSE, Msg("check_error", "row_values"), c1)
        ELSE IF ~In(exp_code, header) THEN Result(FALSE, Msg("no_exp_code_column", worksheet_name), c1)
        ELSE IF Raises(c1, f) THEN Result(FALSE, Msg("check_error", "col_values"), c2)
        ELSE IF In(code, existing_codes(rows, header))
             THEN Result(FALSE, Msg("exists", code), c2)
             ELSE Result(TRUE, Msg("available", code), c2)

\* lines 109-119, once the worksheet is in hand
check_in_worksheet(rows, code, worksheet_name, f, calls) ==
    LET c1 == Append(calls, "row_values")
        header == row_values(rows, 1)
        c2 == Append(c1, "col_values")
    IN  IF Raises(calls, f) THEN Result(FALSE, Msg("check_error", "row_values"), c1)
        ELSE IF ~In(exp_code, header) THEN Result(TRUE, Msg("no_exp_code_column", worksheet_name), c1)
        ELSE IF Raises(c1, f) THEN Result(FALSE, Msg("check_error", "col_values"), c2)
        ELSE IF In(code, existing_codes(rows, header))
             THEN Result(FALSE, Msg("exists", code), c2)
             ELSE Result(TRUE, Msg("available", code), c2)

\* (variant) the empty key is tested only once the spreadsheet is open
check_exp_code_in_sheet_opens_first(st, code, worksheet_name, f) ==
    IF f = SheetNotFound THEN Result(TRUE, Msg("sheet_not_found_warning", EmptyStr), <<"open_by_url">>)
    ELSE IF f = 1 THEN Result(FALSE, Msg("check_error", "open_by_url"), <<"open_by_url">>)
    ELSE IF code = EmptyStr THEN Result(FALSE, Msg("empty", EmptyStr), <<"open_by_url">>)
    ELSE IF f = 2 THEN Result(FALSE, Msg("check_error", "worksheet"), <<"open_by_url", "worksheet">>)
    ELSE IF ~st[worksheet_name].exists
         THEN Result(TRUE, Msg("available_no_worksheet", code), <<"open_by_url", "worksheet">>)
    ELSE check_in_worksheet(st[worksheet_name].rows, code, worksheet_name, f,
                            <<"open_by_url", "worksheet">>)

check_exp_code_in_sheet(st, code, worksheet_name, f) ==
    IF code = EmptyStr THEN Result(FALSE, Msg("empty", EmptyStr), <<>>)
    ELSE IF f = SheetNotFound THEN Result(TRUE, Msg("sheet_not_found_warning", EmptyStr), <<"open_by_url">>)
    ELSE IF f = 1 THEN Result(FALSE, Msg("check_error", "open_by_url"), <<"open_by_url">>)
    ELSE IF f = 2 THEN Result(FALSE, Msg("check_error", "worksheet"), <<"open_by_url", "worksheet">>)
    ELSE IF ~st[worksheet_name].exists
         THEN Result(TRUE, Msg("available_no_worksheet", code), <<"open_by_url", "worksheet">>)
    ELSE check_in_worksheet(st[worksheet_name].rows, code, worksheet_name, f,
                            <<"open_by_url", "worksheet">>)

----------------------------------------------------------------------------
(* append_to_sheet(client, sheet_url, data_dict, worksheet_name), one store *)
(* call per step.  A call s is the record of the function's locals:         *)
(* pc names the store call it makes next.                                   *)

NewCall(data_dict, worksheet_name) ==
    [pc |-> "open_by_url", data_dict |-> data_dict, worksheet_name |-> worksheet_name,
     header |-> <<>>, existing_headers |-> <<>>, calls |-> <<>>,
     ok |-> FALSE, msg |-> Msg("", EmptyStr)]

Idle == [NewCall(<<>>, "") EXCEPT !.pc = "idle"]

Called(s, name) == [s EXCEPT !.calls = Append(@, name)]

Return(s, ok, msg) == [s EXCEPT !.pc = "done", !.ok = ok, !.msg = msg]

Goto(s, pc) == [s EXCEPT !.pc = pc]

\* except Exception as e: return False, f"{submit_gspread_error}: {e}"
Raise(s, name) == Return(Called(s, name), FALSE, Msg("submit_gspread_error", name))

\* exp_code_to_check = data_dict.get('exp_code')
exp_code_to_check(data_dict) ==
    IF HasKey(data_dict, exp_code) THEN Lookup(data_dict, exp_code) ELSE <<"none">>

\* if exp_code_to_check: (a non-empty str)
Truthy(v) == v[1] = "str" /\ v[2] # EmptyStr

\* where the call goes once it holds the worksheet (lines 141-142)
AfterWorksheet(s) ==
    IF Truthy(exp_code_to_check(s.data_dict)) THEN Goto(s, "row_values_143")
    ELSE Goto(s, "row_values_155")

\* (variant) every column of the record is taken for new
new_cols_all(columns, existing_headers) == columns

\* new_cols = [col for col in df.columns if col not in existing_headers]
RECURSIVE new_cols(_, _)
new_cols(columns, existing_headers) ==
    IF columns = <<>> THEN <<>>
    ELSE (IF In(Head(columns), existing_headers) THEN <<>> ELSE <<Head(columns)>>)
         \o new_cols(Tail(columns), existing_headers)

\* what a flattened value puts in a cell
CellText(v) == IF v[1] = "str" THEN v[2] ELSE EmptyStr

\* df.values.tolist()[0]: the flattened values in the record's key order
first_row(data_dict) ==
    [i \in 1..Len(data_dict) |-> CellText(flat_data(data_dict)[i][2])]

\* (variant) the row keeps the record's own key order
values_to_append_record_order(data_dict, existing_headers) == first_row(data_dict)

\* values_to_append[0]: one cell per header column, '' where the record has
\* no such key (pd.concat onto the header's columns, fillna(''))
values_to_append(data_dict, existing_headers) ==
    [c \in 1..Len(existing_headers) |->
        IF HasKey(data_dict, existing_headers[c])
        THEN CellText(Lookup(flat_data(data_dict), existing_headers[c]))
        ELSE EmptyStr]

\* (variant) no handler of its own for SpreadsheetNotFound: the generic
\* handler reports it
Step_open_by_url_generic(st, s, f) ==
    IF f = SheetNotFound \/ Raises(s.calls, f) THEN [st |-> st, s |-> Raise(s, "open_by_url")]
    ELSE [st |-> st, s |-> Goto(Called(s, "open_by_url"), "worksheet")]

\* line 133: spreadsheet = client.open_by_url(sheet_url)
Step_open_by_url(st, s, f) ==
    IF f = SheetNotFound
    THEN [st |-> st, s |-> Return(Called(s, "open_by_url"), FALSE,
                                   Msg("gcp_sheet_not_found_error", EmptyStr))]
    ELSE IF Raises(s.calls, f) THEN [st |-> st, s |-> Raise(s, "open_by_url")]
    ELSE [st |-> st, s |-> Goto(Called(s, "open_by_url"), "worksheet")]

\* lines 134-136: sheet = spreadsheet.worksheet(worksheet_name)
Step_worksheet(st, s, f) ==
    IF Raises(s.calls, f) THEN [st |-> st, s |-> Raise(s, "worksheet")]
    ELSE IF st[s.worksheet_name].exists
         THEN [st |-> st, s |-> AfterWorksheet(Called(s, "worksheet"))]
         ELSE [st |-> st, s |-> Goto(Called(s, "worksheet"), "add_worksheet")]

\* line 138: sheet = spreadsheet.add_worksheet(...); the store refuses a
\* title that exists by now
Step_add_worksheet(st, s, f) ==
    IF Raises(s.calls, f) \/ st[s.worksheet_name].exists
    THEN [st |-> st, s |-> Raise(s, "add_worksheet")]
    ELSE [st |-> add_worksheet(st, s.worksheet_name),
          s |-> AfterWorksheet(Called(s, "add_worksheet"))]

\* (variant) the key column is looked for in the first column only
Step_row_values_143_first_column(st, s, f) ==
    LET header == row_values(st[s.worksheet_name].rows, 1)
        s1 == [Called(s, "row_values") EXCEPT !.header = header]
    IN  IF Raises(s.calls, f) THEN [st |-> st, s |-> Raise(s, "row_values")]
        ELSE IF header # <<>> /\ header[1] = exp_code
             THEN [st |-> st, s |-> Goto(s1, "col_values_146")]
             ELSE [st |-> st, s |-> Goto(s1, "row_values_155")]

\* lines 143-144: header = sheet.row_values(1)
Step_row_values_143(st, s, f) ==
    LET header == row_values(st[s.worksheet_name].rows, 1)
        s1 == [Called(s, "row_values") EXCEPT !.header = header]
    IN  IF Raises(s.calls, f) THEN [st |-> st, s |-> Raise(s, "row_values")]
        ELSE IF header # <<>> /\ In(exp_code, header)
             THEN [st |-> st, s |-> Goto(s1, "col_values_146")]
             ELSE [st |-> st, s |-> Goto(s1, "row_values_155")]

\* (variant) a code found in the column does not stop the call
Step_col_values_146_unchecked(st, s, f) ==
    IF Raises(s.calls, f) THEN [st |-> st, s |-> Raise(s, "col_values")]
    ELSE [st |-> st, s |-> Goto(Called(s, "col_values"), "row_values_155")]

\* lines 145-149: the inline uniqueness check
Step_col_values_146(st, s, f) ==
    LET codes == existing_codes(st[s.worksheet_name].rows, s.header)
        s1 == Called(s, "col_values")
        code == exp_code_to_check(s.data_dict)[2]
    IN  IF Raises(s.calls, f) THEN [st |-> st, s |-> Raise(s, "col_values")]
        ELSE IF In(code, codes)
             THEN [st |-> st, s |-> Return(s1, FALSE, Msg("exists", code))]
             ELSE [st |-> st, s |-> Goto(s1, "row_values_155")]

\* lines 155-161: existing_headers = sheet.row_values(1)
Step_row_values_155(st, s, f) ==
    LET existing_headers == row_values(st[s.worksheet_name].rows, 1)
        s1 == [Called(s, "row_values") EXCEPT !.existing_headers = existing_headers]
    IN  IF Raises(s.calls, f) THEN [st |-> st, s |-> Raise(s, "row_values")]
        ELSE IF existing_headers = <<>>
             THEN [st |-> st, s |-> Goto(s1, "update_157")]
        ELSE IF new_cols(Keys(s.data_dict), existing_headers) # <<>>
             THEN [st |-> st, s |-> Goto(s1, "update_163")]
             ELSE [st |-> st, s |-> Goto(s1, "append_rows_169")]

\* line 157: sheet.update([df.columns.values.tolist()] + df.values.tolist())
Step_update_157(st, s, f) ==
    IF Raises(s.calls, f) THEN [st |-> st, s |-> Raise(s, "update")]
    ELSE [st |-> [st EXCEPT ![s.worksheet_name].rows =
                      update(@, 1, 1, <<Keys(s.data_dict), first_row(s.data_dict)>>)],
          s |-> Return(Called(s, "update"), TRUE, Msg("submit_success", EmptyStr))]

\* (variant) the header update carries the record's values with it, as the
\* update of line 157 does
Step_update_163_with_values(st, s, f) ==
    LET cols == new_cols(Keys(s.data_dict), s.existing_headers)
        vals == [i \in 1..Len(cols) |-> CellText(Lookup(flat_data(s.data_dict), cols[i]))]
    IN  IF Raises(s.calls, f) THEN [st |-> st, s |-> Raise(s, "update")]
        ELSE [st |-> [st EXCEPT ![s.worksheet_name].rows =
                          update(@, 1, Len(s.existing_headers) + 1, <<cols, vals>>)],
              s |-> Goto([Called(s, "update") EXCEPT !.existing_headers = @ \o cols],
                         "append_rows_169")]

\* lines 163-164: the new columns go to the right of the header
Step_update_163(st, s, f) ==
    LET cols == new_cols(Keys(s.data_dict), s.existing_headers)
    IN  IF Raises(s.calls, f) THEN [st |-> st, s |-> Raise(s, "update")]
        ELSE [st |-> [st EXCEPT ![s.worksheet_name].rows =
                          update(@, 1, Len(s.existing_headers) + 1, <<cols>>)],
              s |-> Goto([Called(s, "update") EXCEPT !.existing_headers = @ \o cols],
                         "append_rows_169")]

\* lines 166-171: sheet.append_rows(values_to_append)
Step_append_rows_169(st, s, f) ==
    IF Raises(s.calls, f) THEN [st |-> st, s |-> Raise(s, "append_rows")]
    ELSE [st |-> [st EXCEPT ![s.worksheet_name].rows =
                      append_rows(@, <<values_to_append(s.data_dict, s.existing_headers)>>)],
          s |-> Return(Called(s, "append_rows"), TRUE, Msg("submit_success", EmptyStr))]

\* one store call of a running append_to_sheet
Step(st, s, f) ==
    CASE s.pc = "open_by_url"     -> Step_open_by_url(st, s, f)
      [] s.pc = "worksheet"       -> Step_worksheet(st, s, f)
      [] s.pc = "add_worksheet"   -> Step_add_worksheet(st, s, f)
      [] s.pc = "row_values_143"  -> Step_row_values_143(st, s, f)
      [] s.pc = "col_values_146"  -> Step_col_values_146(st, s, f)
      [] s.pc = "row_values_155"  -> Step_row_values_155(st, s, f)
      [] s.pc = "update_157"      -> Step_update_157(st, s, f)
      [] s.pc = "update_163"      -> Step_update_163(st, s, f)
      [] s.pc = "append_rows_169" -> Step_append_rows_169(st, s, f)

Running(s) == s.pc \notin {"idle", "done"}

\* a call run to completion with nothing else touching the store
RECURSIVE Run(_, _, _)
Run(st, s, f) ==
    IF Running(s) THEN LET n == Step(st, s, f) IN Run(n.st, n.s, f)
    ELSE [st |-> st, s |-> s]

append_to_sheet(st, data_dict, worksheet_name, f) ==
    Run(st, NewCall(data_dict, worksheet_name), f)

----------------------------------------------------------------------------
(* Inputs *)

\* the worksheet names (template types) asked for
Worksheets == {"battery", "synthesis"}

\* the template whose page the submissions come from
SubmitWorksheets == {"battery"}

\* the experiment codes a user types; the empty str is an unfilled field
Codes == {EmptyStr, <<"A1">>, <<"A2">>}

\* a table as st.data_editor returns it: a list of row dicts
Tables == {<<"list", << <<"dict", << << <<"type">>, <<"str", <<"Li">> >> >> >> >> >> >>}

\* the orders in which the layouts of the templates put the keys
KeyOrders ==
    { <<exp_code, date>>, <<exp_code, date, note>>, <<date>>,
      <<cathode_table, exp_code>> }

ValuesOf(k) ==
    CASE k = exp_code -> {<<"str", c>> : c \in Codes}
      [] k = date -> {<<"str", <<"2024-01-01">> >>}
      [] k = note -> {<<"str", <<"x">> >>}
      [] k = cathode_table -> Tables

AllValues == UNION {ValuesOf(k) : k \in {exp_code, date, note, cathode_table}}

\* the records (final_form_data) submitted
DictsOver(ko) ==
    { [i \in 1..Len(ko) |-> <<ko[i], vs[i]>>] :
        vs \in {w \in [1..Len(ko) -> AllValues] : \A i \in 1..Len(ko) : w[i] \in ValuesOf(ko[i])} }

Records == UNION {DictsOver(ko) : ko \in KeyOrders}

\* append_to_sheet makes at most 7 store calls (lines 133, 135, 143, 146,
\* 155, 163, 169), check_exp_code_in_sheet at most 4 (lines 103, 105, 109,
\* 114); any one of them may be the one that raises
MaxAppendCalls == 7
MaxCheckCalls == 4

AppendFailures == {SheetNotFound, NoFailure} \cup (1..MaxAppendCalls)
CheckFailures == {SheetNotFound, NoFailure} \cup (1..MaxCheckCalls)

----------------------------------------------------------------------------
(* The template page: st.session_state, the widgets and one script run      *)
(* (a Streamlit script run is main() from top to bottom, started by one     *)
(* interaction of the user: a button pressed or one widget edited)          *)

\* a key that st.session_state, a dict or a widget does not hold
Absent == <<"absent">>

None == <<"none">>

investigator == <<"investigator">>
topic == <<"topic">>
cell_type == <<"cell_type">>
exp_selector == <<"exp_selector">>

Str(s) == <<"str", s>>

Range(seq) == {seq[i] : i \in 1..Len(seq)}

\* d[k] = v
SetItem(d, k, v) ==
    IF HasKey(d, k) THEN [i \in 1..Len(d) |-> IF d[i][1] = k THEN <<k, v>> ELSE d[i]]
    ELSE Append(d, <<k, v>>)

\* d.get(k, default)
Get(d, k, default) == IF HasKey(d, k) THEN Lookup(d, k) ELSE default

\* current_value or ''
OrEmpty(v) == IF v[1] = "str" THEN v ELSE Str(EmptyStr)

\* the days datetime.date.today() goes through, in order
Days == << <<"2024-01-01">>, <<"2024-01-02">> >>

\* config['experimenters']
Experimenters == << <<"Ann">> >>

\* field_def['options'] of the radio field
RadioOptions == <<Str(<<"coin">>), Str(<<"pouch">>)>>

\* field_def.get('default') of the radio field: an option, or a value that
\* is no option
RadioDefaults == {Str(<<"pouch">>), Str(<<"cylinder">>)}

FieldDef(key, field_type, default, options) ==
    [key |-> key, type |-> field_type, default |-> default, options |-> options]

Item(item_type, item_key) == [type |-> item_type, key |-> item_key]

\* the orders in which a layout places the fields
Layouts ==
    { <<Item("subheader", <<>>), Item("field", date), Item("field", investigator),
        Item("field", topic), Item("divider", <<>>), Item("field", exp_code),
        Item("field", cell_type), Item("table", cathode_table)>>,
      <<Item("field", exp_code), Item("field", cell_type), Item("table", cathode_table),
        Item("field", date), Item("field", investigator), Item("field", topic)>> }

\* a template of config['templates']
Template(layout, default) ==
    [type |-> "battery", name |-> <<"Battery">>,
     fields |-> <<FieldDef(date, "autofill", None, <<>>),
                  FieldDef(investigator, "autofill", None, <<>>),
                  FieldDef(topic, "autofill", None, <<>>),
                  FieldDef(exp_code, "text", None, <<>>),
                  FieldDef(cell_type, "radio", default, RadioOptions)>>,
     tables |-> <<[key |-> cathode_table]>>,
     layout |-> layout]

Templates == {Template(lo, d) : lo \in Layouts, d \in RadioDefaults}

SheetUrl == <<"https://sheet">>

\* config.json, and which templates have a document template_<name>.docx
Configs ==
    { [google_sheet_url |-> u, template |-> t, docs |-> ds] :
        u \in {SheetUrl}, t \in Templates, ds \in {{}, {<<"Battery">>}} }

\* the widgets of the template page that keep a value between runs
WidgetKeys == {exp_code, cell_type, exp_selector, cathode_table}

NoWidgets == [k \in WidgetKeys |-> Absent]

\* one interaction: the button pressed, or the widget edited and its new
\* value, and the day the run happens on
Input(button, edit, value, day) ==
    [button |-> button, edit |-> edit, value |-> value, today |-> Days[day], day |-> day]

\* st.text_input / st.radio / st.selectbox with a key: the user's edit, else
\* the value the widget held in the last run, else the value it is given
WidgetValue(ss, inp, key, value) ==
    IF inp.edit = key THEN inp.value
    ELSE IF ss.widgets[key] # Absent THEN ss.widgets[key]
    ELSE value

\* a render pass under way: session_state, the widgets rendered so far,
\* what is on the page and whether an exception ended the run
Pass(ss) == [ss |-> ss, w |-> NoWidgets, shown |-> {}, raised |-> FALSE]

\* st.session_state[form_data_key][key] = value
SetField(p, key, value) ==
    [p EXCEPT !.ss.form_data = <<"dict", SetItem(@[2], key, value)>>]

\* lines 194-202
autofill(p, key, inp, selected_experimenter, template_name) ==
    IF key = date THEN SetField(p, key, Str(inp.today))
    ELSE IF key = investigator THEN SetField(p, key, selected_experimenter)
    ELSE IF key = topic THEN SetField(p, key, Str(template_name))
    ELSE p

\* lines 209-234 and 245-246: the exp_code input and its check button.
\* Line 226 reads template['type'], and _render_dynamic_field has no name
\* template in scope (its parameter is template_name, the module has no such
\* global): evaluating the arguments raises NameError before
\* check_exp_code_in_sheet is entered, and the run ends there.
exp_code_field(p, inp, current_value, cfg) ==
    LET widget == WidgetValue(p.ss, inp, exp_code, OrEmpty(current_value))
        p1 == [p EXCEPT !.w[exp_code] = widget]
        cached == IF p.ss.check_message = Absent THEN {}
                  ELSE IF p.ss.is_unique = TRUE THEN {"check_success"} ELSE {"check_error"}
    IN  IF inp.button = "check" /\ cfg.google_sheet_url # EmptyStr
        THEN [p1 EXCEPT !.raised = TRUE, !.shown = @ \cup {"NameError"}]
        ELSE IF inp.button = "check"
        THEN SetField([p1 EXCEPT !.shown = @ \cup {"batch_export_url_missing"} \cup cached],
                      exp_code, widget)
        ELSE SetField([p1 EXCEPT !.shown = @ \cup cached], exp_code, widget)

\* (variant) a value that is no option is passed to the widget as it is
radio_index_unclamped(options, current_value) == current_value

\* line 243: options[index], index = options.index(current_value) if
\* current_value in options else 0
radio_index(options, current_value) ==
    IF In(current_value, options) THEN options[IndexOf(options, current_value)]
    ELSE options[1]

\* lines 242-246
radio_field(p, inp, field_def, current_value) ==
    LET widget == WidgetValue(p.ss, inp, field_def.key,
                              radio_index(field_def.options, current_value))
    IN  SetField([p EXCEPT !.w[field_def.key] = widget], field_def.key, widget)

_render_dynamic_field(field_def, p, inp, selected_experimenter, template_name, cfg) ==
    LET key == field_def.key
        current_value == Get(p.ss.form_data[2], key, field_def.default)
    IN  IF field_def.type = "autofill"
        THEN autofill(p, key, inp, selected_experimenter, template_name)
        ELSE IF key = exp_code THEN exp_code_field(p, inp, current_value, cfg)
        ELSE IF field_def.type = "radio" THEN radio_field(p, inp, field_def, current_value)
        ELSE p

\* the table st.data_editor gives back: the table it is given, or the
\* user's edit of it
_render_dynamic_table(table_def, p, inp) ==
    LET given == IF p.ss.editor = Absent THEN <<"list", <<>> >> ELSE p.ss.editor
        edited_df == IF inp.edit = table_def.key THEN inp.value ELSE given
    IN  SetField([p EXCEPT !.ss.editor = edited_df, !.w[table_def.key] = edited_df],
                 table_def.key, edited_df)

\* fields_map[item_key], tables_map[item_key]
DefOf(defs, key) == defs[CHOOSE i \in 1..Len(defs) : defs[i].key = key]

HasDef(defs, key) == \E i \in 1..Len(defs) : defs[i].key = key

\* lines 296-307: the layout from item i on; an exception ends the run
RECURSIVE render_layout(_, _, _, _, _, _)
render_layout(template, i, p, inp, selected_experimenter, cfg) ==
    IF i > Len(template.layout) \/ p.raised THEN p
    ELSE LET item == template.layout[i]
             q == IF item.type = "field" /\ HasDef(template.fields, item.key)
                  THEN _render_dynamic_field(DefOf(template.fields, item.key), p, inp,
                                             selected_experimenter, template.name, cfg)
                  ELSE IF item.type = "table" /\ HasDef(template.tables, item.key)
                  THEN _render_dynamic_table(DefOf(template.tables, item.key), p, inp)
                  ELSE p
         IN  render_layout(template, i + 1, q, inp, selected_experimenter, cfg)

\* lines 285-289, then the layout
render_dynamic_page(template, p, inp, selected_experimenter, cfg) ==
    LET p1 == IF p.ss.form_data = Absent
              THEN [p EXCEPT !.ss.form_data = <<"dict", <<>> >>, !.ss.check_message = Absent]
              ELSE p
    IN  render_layout(template, 1, p1, inp, selected_experimenter, cfg)

\* exporter.py: the stream export_to_word returns, empty (zero bytes) when
\* DocxTemplate cannot open template_<name>.docx
export_to_word(data, template_name, docs) ==
    IF template_name \notin docs THEN <<>>
    ELSE <<"docx", template_name>>

\* st.session_state as a script run starts from it the first time
NewSession ==
    [page |-> "main_menu", form_data |-> Absent, check_message |-> Absent,
     is_unique |-> Absent, editor |-> Absent, zip_buffer |-> Absent, widgets |-> NoWidgets]

NoInput(day) == Input("none", <<"none">>, None, day)

\* what a script run leaves on the page: the page rendered, the messages
\* shown, the data of the download button (Absent: no button), the record
\* read at submission and what append_to_sheet returned, the documents the
\* batch export counted and the empty ones among them, and the interaction
\* that started the run
Screen(page) ==
    [page |-> page, shown |-> {}, raised |-> FALSE, download |-> Absent,
     submitted |-> Absent, result |-> Absent, total_docs_generated |-> 0, empty_docs |-> 0,
     inp |-> NoInput(1)]

\* what a page function gives back
Outcome(ss, st, cfg, out) == [ss |-> ss, st |-> st, cfg |-> cfg, out |-> out]

\* lines 471-496: the submit button and the download button
submit_and_download(template, ss, st, cfg, inp, f, out) ==
    LET final_form_data == ss.form_data[2]
        pressed == inp.button = "submit"
        url_set == cfg.google_sheet_url # EmptyStr
        r == append_to_sheet(st, final_form_data, template.type, f)
        out1 == IF ~pressed THEN out
                ELSE IF ~url_set
                THEN [out EXCEPT !.submitted = ss.form_data,
                                 !.shown = @ \cup {"gcp_url_not_set_warning"}]
                ELSE [out EXCEPT !.submitted = ss.form_data,
                                 !.result = <<r.s.ok, r.s.msg>>,
                                 !.shown = @ \cup {IF r.s.ok THEN "success" ELSE "error"}]
        out2 == IF ss.form_data[2] # <<>>
                THEN [out1 EXCEPT !.download = export_to_word(ss.form_data[2], template.name, cfg.docs)]
                ELSE out1
    IN  Outcome(ss, IF pressed /\ url_set THEN r.st ELSE st, cfg, out2)

\* lines 445-496, the back button apart: the selectbox, the render pass,
\* then the two buttons unless an exception ended the run
template_page(template, ss, st, cfg, inp, f) ==
    LET selected_experimenter == WidgetValue(ss, inp, exp_selector, Str(Experimenters[1]))
        p0 == [Pass(ss) EXCEPT !.w[exp_selector] = selected_experimenter]
        p == render_dynamic_page(template, p0, inp, selected_experimenter, cfg)
        ss1 == [p.ss EXCEPT !.widgets = p.w]
        out == [Screen(template.type) EXCEPT !.shown = p.shown, !.raised = p.raised]
    IN  IF p.raised THEN Outcome(ss1, st, cfg, out)
        ELSE submit_and_download(template, ss1, st, cfg, inp, f, out)

\* sheet.get_all_records(): one dict per row below the header
get_all_records(rows) ==
    [r \in 1..DataRows(rows) |->
        [c \in 1..Len(rows[1]) |-> <<rows[1][c], Str(Cell(rows, r + 1, c))>>]]

\* lines 536-549: the streams written to the zip file, one per record (the
\* reconstruction of lines 537-543 changes the record's values, not whether
\* there is a document for it)
exported_streams(records, template, docs) ==
    [i \in 1..Len(records) |-> export_to_word(records[i], template.name, docs)]

\* lines 505-570 (the back button apart)
page_batch_export(ss, st, cfg, inp, f) ==
    LET out == Screen("batch_export")
        template == cfg.template
        sheet == st[template.type]
        streams == IF sheet.exists THEN exported_streams(get_all_records(sheet.rows), template, cfg.docs)
                   ELSE <<>>
        total_docs_generated == Len(streams)
        ss0 == [ss EXCEPT !.widgets = NoWidgets]
        ss1 == IF inp.button = "download_zip" THEN [ss0 EXCEPT !.zip_buffer = Absent] ELSE ss0
    IN  IF cfg.google_sheet_url = EmptyStr
        THEN Outcome(ss1, st, cfg, [out EXCEPT !.shown = {"batch_export_url_missing"}])
        ELSE IF inp.button # "generate" THEN Outcome(ss1, st, cfg, out)
        ELSE IF f # NoFailure
        THEN Outcome(ss1, st, cfg, [out EXCEPT !.shown = {"batch_export_error"}, !.raised = TRUE])
        ELSE IF total_docs_generated > 0
        THEN Outcome([ss1 EXCEPT !.zip_buffer = streams], st, cfg,
                     [out EXCEPT !.shown = {"batch_export_success"},
                                 !.total_docs_generated = total_docs_generated,
                                 !.empty_docs = Cardinality({i \in 1..Len(streams) : streams[i] = <<>>})])
        ELSE Outcome(ss1, st, cfg, [out EXCEPT !.shown = {"batch_export_no_data"}])

\* lines 661-662: the page function of the current page, on a run in which
\* no button takes the user to another page
page_function(ss, st, cfg, inp, f) ==
    IF ss.page = "batch_export" THEN page_batch_export(ss, st, cfg, inp, f)
    ELSE IF ss.page = cfg.template.type THEN template_page(cfg.template, ss, st, cfg, inp, f)
    ELSE Outcome([ss EXCEPT !.widgets = NoWidgets], st, cfg, Screen(ss.page))

\* a script run under way: session_state, config.json, the interaction it
\* answers and the store call that fails in it
Start(ss, cfg, inp, f) == [ss |-> ss, cfg |-> cfg, inp |-> inp, f |-> f]

\* the buttons that change the page or the configuration end in
\* st.rerun(), which starts the script again with no interaction (lines
\* 644-646, 453-457, 367-372, 500-502, 413-427, 434-443)
navigate(ss, cfg, inp, f) ==
    LET rerun(ss1, cfg1) == Start(ss1, cfg1, NoInput(inp.day), NoFailure)
    IN  CASE inp.button = "settings" -> rerun([ss EXCEPT !.page = "settings"], cfg)
          [] inp.button = "back" /\ ss.page = cfg.template.type
                -> rerun([ss EXCEPT !.page = "main_menu", !.form_data = Absent], cfg)
          [] inp.button = "back" /\ ss.page # cfg.template.type
                -> rerun([ss EXCEPT !.page = "main_menu"], cfg)
          [] inp.button = "save" -> rerun(ss, [cfg EXCEPT !.google_sheet_url = inp.value])
          [] inp.button = "open_template" -> rerun([ss EXCEPT !.page = cfg.template.type], cfg)
          [] inp.button = "open_batch_export" -> rerun([ss EXCEPT !.page = "batch_export"], cfg)
          [] OTHER -> Start(ss, cfg, inp, f)

\* lines 573-662 for a logged-in session
main(ss, st, cfg, inp, f) ==
    LET run == navigate(ss, cfg, inp, f)
    IN  page_function(run.ss, st, run.cfg, run.inp, run.f)

----------------------------------------------------------------------------
(* State *)

EmptyStore == [w \in Worksheets |-> [exists |-> FALSE, rows |-> <<>>]]

\* the last operation run to completion on its own: its arguments, the
\* store it started from and what it returned
NoOp ==
    [op |-> "none", worksheet_name |-> "", data_dict |-> <<>>, exp_code |-> EmptyStr,
     f |-> NoFailure, pre |-> EmptyStore, ok |-> FALSE, msg |-> Msg("", EmptyStr),
     calls |-> <<>>]

Sessions == {1, 2}

NoRoundTrip == [phase |-> "none", record |-> <<>>, flat |-> <<>>, back |-> <<>>]

Init ==
    /\ store = EmptyStore
    /\ last = NoOp
    /\ sess = [i \in Sessions |-> Idle]
    /\ rt = NoRoundTrip
    /\ session_state = NewSession
    /\ screen = Screen("main_menu")
    /\ config = [google_sheet_url |-> SheetUrl, template |-> Template(<<>>, None), docs |-> {}]

----------------------------------------------------------------------------
(* Operations run one at a time *)

\* a submission (page_dynamic_template_runner, lines 474-486)
Submit(worksheet_name, data_dict, f) ==
    /\ last.op = "none"
    /\ Len(store[worksheet_name].rows) < MaxRows
    /\ LET r == append_to_sheet(store, data_dict, worksheet_name, f)
       IN  /\ store' = r.st
           /\ last' = [op |-> "append", worksheet_name |-> worksheet_name,
                       data_dict |-> data_dict, exp_code |-> EmptyStr, f |-> f,
                       pre |-> store, ok |-> r.s.ok, msg |-> r.s.msg, calls |-> r.s.calls]
    /\ UNCHANGED <<sess, rt, uivars>>

\* a call of check_exp_code_in_sheet, the call the check button is written
\* to make (line 226)
CheckCode(worksheet_name, code, f) ==
    /\ last.op = "none"
    /\ LET r == check_exp_code_in_sheet(store, code, worksheet_name, f)
       IN  last' = [op |-> "check", worksheet_name |-> worksheet_name,
                    data_dict |-> <<>>, exp_code |-> code, f |-> f,
                    pre |-> store, ok |-> r.ok, msg |-> r.msg, calls |-> r.calls]
    /\ UNCHANGED <<store, sess, rt, uivars>>

\* the returned pair is shown (st.success / st.error) and the script run
\* ends; the next run starts without it
Rerun ==
    /\ last.op # "none"
    /\ last' = NoOp
    /\ UNCHANGED <<store, sess, rt, uivars>>

Next ==
    \/ \E w \in SubmitWorksheets, d \in Records, f \in AppendFailures : Submit(w, d, f)
    \/ \E w \in Worksheets, c \in Codes \cup {exp_code}, f \in CheckFailures : CheckCode(w, c, f)
    \/ Rerun

Spec == Init /\ [][Next]_vars

----------------------------------------------------------------------------
(* Two sessions submitting at the same time: the store calls of their      *)
(* append_to_sheet runs interleave (no lock is taken, no store call of     *)
(* these runs raises on its own)                                           *)

\* the worksheet as one earlier submission left it, or not yet created
ConcStores ==
    {EmptyStore} \cup
    { append_to_sheet(EmptyStore, d, w, NoFailure).st : d \in Records, w \in SubmitWorksheets }

InitConc ==
    /\ store \in ConcStores
    /\ last = NoOp
    /\ sess = [i \in Sessions |-> Idle]
    /\ rt = NoRoundTrip
    /\ session_state = NewSession
    /\ screen = Screen("main_menu")
    /\ config = [google_sheet_url |-> SheetUrl, template |-> Template(<<>>, None), docs |-> {}]

\* session i presses submit: append_to_sheet is entered
Begin(i, worksheet_name, data_dict) ==
    /\ sess[i].pc = "idle"
    /\ sess' = [sess EXCEPT ![i] = NewCall(data_dict, worksheet_name)]
    /\ UNCHANGED <<store, last, rt, uivars>>

\* session i's run makes its next store call
StoreCall(i) ==
    /\ Running(sess[i])
    /\ LET n == Step(store, sess[i], NoFailure)
       IN  /\ store' = n.st
           /\ sess' = [sess EXCEPT ![i] = n.s]
    /\ UNCHANGED <<last, rt, uivars>>

NextConc ==
    \/ \E i \in Sessions, w \in SubmitWorksheets, d \in Records : Begin(i, w, d)
    \/ \E i \in Sessions : StoreCall(i)

SpecConc == InitConc /\ [][NextConc]_vars

----------------------------------------------------------------------------
(* Flatten, then reconstruct (append_to_sheet line 152, page_batch_export  *)
(* lines 537-543)                                                          *)

type == <<"type">>
weight == <<"weight">>

\* texts typed into a text column or a text field
TableStrs == { <<"Li">>, EmptyStr, <<"a", DQ, "b">>, <<BS>>, <<"[", "x", "]">>, <<"x", NL>> }

TableInts == {0, 12, -3}

\* one row of the table: a text column and a number column, a cell left
\* blank being None
TableRows ==
    { <<"dict", << <<type, t>>, <<weight, n>> >> >> :
        t \in {<<"str", x>> : x \in TableStrs} \cup {<<"none">>},
        n \in {<<"int", x>> : x \in TableInts} \cup {<<"none">>} }

RECURSIVE SeqsUpTo(_, _)
SeqsUpTo(S, n) ==
    IF n = 0 THEN {<<>>}
    ELSE SeqsUpTo(S, n - 1) \cup {Append(q, x) : q \in {p \in SeqsUpTo(S, n - 1) : Len(p) = n - 1}, x \in S}

\* texts of the scalar field: plain ones, and ones that look like a list
NoteStrs == { <<"x">>, <<"[">>, <<"[", "1", "]">>, <<"[", "x", "]">>, <<"a", "]">> }

RoundTripRecords ==
    { << <<exp_code, <<"str", <<"A1">> >> >>, <<note, <<"str", n>> >>, <<weight, w>>,
         <<cathode_table, <<"list", t>> >> >> :
        n \in NoteStrs, w \in {<<"int", 12>>, <<"none">>}, t \in SeqsUpTo(TableRows, MaxItems) }

InitRoundTrip ==
    /\ store = EmptyStore
    /\ last = NoOp
    /\ sess = [i \in Sessions |-> Idle]
    /\ rt \in { [phase |-> "record", record |-> d, flat |-> <<>>, back |-> <<>>] : d \in RoundTripRecords }
    /\ session_state = NewSession
    /\ screen = Screen("main_menu")
    /\ config = [google_sheet_url |-> SheetUrl, template |-> Template(<<>>, None), docs |-> {}]

\* line 152
Flatten ==
    /\ rt.phase = "record"
    /\ rt' = [rt EXCEPT !.phase = "flat", !.flat = flat_data(rt.record)]
    /\ UNCHANGED <<store, last, sess, uivars>>

\* lines 537-543
Reconstruct ==
    /\ rt.phase = "flat"
    /\ rt' = [rt EXCEPT !.phase = "back", !.back = reconstructed_record(rt.flat)]
    /\ UNCHANGED <<store, last, sess, uivars>>

NextRoundTrip == Flatten \/ Reconstruct

SpecRoundTrip == InitRoundTrip /\ [][NextRoundTrip]_vars

----------------------------------------------------------------------------
(* One user on the pages of the app: every action is one interaction and   *)
(* the script run (with its reruns) that it starts                         *)

InitUI ==
    /\ store = EmptyStore
    /\ last = NoOp
    /\ sess = [i \in Sessions |-> Idle]
    /\ rt = NoRoundTrip
    /\ session_state = NewSession
    /\ screen = Screen("main_menu")
    /\ config \in Configs

\* the tables the user leaves in the data editor
EditedTables == Tables \cup {<<"list", <<>> >>}

\* the experiment codes typed on the page
PageCodes == {EmptyStr, <<"A1">>}

\* the values the user can give a widget
WidgetInputs(key) ==
    CASE key = exp_code -> {Str(c) : c \in PageCodes}
      [] key = cell_type -> Range(RadioOptions)
      [] key = exp_selector -> {Str(e) : e \in Range(Experimenters)}
      [] key = cathode_table -> EditedTables

\* the failures of the store during a submission from the page
PageFailures == {NoFailure, SheetNotFound}

\* main() run on one interaction
ScriptRun(inp, f) ==
    LET r == main(session_state, store, config, inp, f)
    IN  /\ session_state' = r.ss
        /\ store' = r.st
        /\ config' = r.cfg
        /\ screen' = [r.out EXCEPT !.inp = [inp EXCEPT !.value = None]]
        /\ UNCHANGED <<last, sess, rt>>

\* the days a run that follows the last one can happen on
DaysFromNow == screen.inp.day..Len(Days)

OnTemplatePage == session_state.page = config.template.type

Pressed(inp, button, f) == inp.button = button /\ f = NoFailure

\* a template's button of the main menu (lines 434-437)
OpenTemplate(inp, f) ==
    session_state.page = "main_menu" /\ Pressed(inp, "open_template", f)

\* the batch export button of the main menu (lines 441-443)
OpenBatchExport(inp, f) ==
    session_state.page = "main_menu" /\ Pressed(inp, "open_batch_export", f)

\* the Settings button of the sidebar (lines 644-646), on every page
OpenSettings(inp, f) ==
    session_state.page # "settings" /\ Pressed(inp, "settings", f)

\* the back-to-menu button of a page (lines 453-457, 367-372, 500-502)
BackToMenu(inp, f) ==
    session_state.page # "main_menu" /\ Pressed(inp, "back", f)

\* the user edits one widget that the last run rendered
EditWidget(inp, f) ==
    /\ OnTemplatePage
    /\ inp.edit \in WidgetKeys /\ session_state.widgets[inp.edit] # Absent
    /\ f = NoFailure

\* the check button next to the exp_code input (line 220)
PressCheck(inp, f) ==
    /\ OnTemplatePage
    /\ session_state.widgets[exp_code] # Absent
    /\ Pressed(inp, "check", f)

\* the submit button (line 474), there when the last run reached it; the
\* submissions from the page are followed while the worksheet holds no row
PressSubmit(inp, f) ==
    /\ OnTemplatePage
    /\ screen.page = config.template.type /\ ~screen.raised
    /\ store[config.template.type].rows = <<>>
    /\ inp.button = "submit" /\ f \in PageFailures

\* the save button of the settings page (lines 413-427)
SaveSettings(inp, f) ==
    session_state.page = "settings" /\ Pressed(inp, "save", f)

\* the generate button of the batch export page (line 515)
GenerateAll(inp, f) ==
    /\ session_state.page = "batch_export"
    /\ config.google_sheet_url # EmptyStr
    /\ inp.button = "generate" /\ f \in {NoFailure, 1}

\* the download button of the zip file (lines 562-570)
DownloadZip(inp, f) ==
    /\ session_state.page = "batch_export"
    /\ config.google_sheet_url # EmptyStr
    /\ session_state.zip_buffer # Absent
    /\ Pressed(inp, "download_zip", f)

\* the interaction is one the page shown offers
Offered(inp, f) ==
    \/ OpenTemplate(inp, f)
    \/ OpenBatchExport(inp, f)
    \/ OpenSettings(inp, f)
    \/ BackToMenu(inp, f)
    \/ EditWidget(inp, f)
    \/ PressCheck(inp, f)
    \/ PressSubmit(inp, f)
    \/ SaveSettings(inp, f)
    \/ GenerateAll(inp, f)
    \/ DownloadZip(inp, f)

Buttons ==
    {"open_template", "open_batch_export", "settings", "back", "check", "submit",
     "generate", "download_zip"}

\* every interaction: a button pressed, the settings saved with a URL, or
\* one widget edited
Interactions ==
    UNION { {Input(b, <<"none">>, None, day) : b \in Buttons}
            \cup {Input("save", <<"none">>, SheetUrl, day)}
            \cup UNION {{Input("none", key, value, day) : value \in WidgetInputs(key)} :
                        key \in WidgetKeys}
          : day \in 1..Len(Days) }

\* one interaction, and the script run it starts
NextUI ==
    \E inp \in Interactions, f \in PageFailures \cup {1} :
        /\ inp.day \in DaysFromNow
        /\ Offered(inp, f)
        /\ ScriptRun(inp, f)

SpecUI == InitUI /\ [][NextUI]_vars

----------------------------------------------------------------------------
(* What the properties speak of *)

\* the header row of a worksheet
HeaderOf(rows) == IF rows = <<>> THEN <<>> ELSE rows[1]

IsPrefix(a, b) == Len(a) <= Len(b) /\ \A i \in 1..Len(a) : a[i] = b[i]

\* the column that holds the keys
KeyColumn(rows) ==
    CHOOSE c \in 1..Len(HeaderOf(rows)) :
        HeaderOf(rows)[c] = exp_code /\ \A b \in 1..(c - 1) : HeaderOf(rows)[b] # exp_code

HasKeyColumn(rows) == exp_code \in Range(HeaderOf(rows))

CodeAt(rows, r) == Cell(rows, r, KeyColumn(rows))

\* the keys persisted below the header
CodesBelowHeader(rows) ==
    IF HasKeyColumn(rows) THEN {CodeAt(rows, r) : r \in 2..Len(rows)} ELSE {}

\* no non-empty key is held by two rows
NoDuplicateCode(rows) ==
    HasKeyColumn(rows) =>
        \A r1, r2 \in 2..Len(rows) :
            (r1 # r2 /\ CodeAt(rows, r1) = CodeAt(rows, r2)) => CodeAt(rows, r1) = EmptyStr

\* the worksheet of the last operation, before and after it
PreRows == last.pre[last.worksheet_name].rows
PostRows == store[last.worksheet_name].rows
PreHeader == HeaderOf(PreRows)
PostHeader == HeaderOf(PostRows)

LastFailed == Failed(last.calls, last.f)

\* the exp_code of a record, the empty str when it has none
CodeOf(data_dict) ==
    IF exp_code \in Range(Keys(data_dict)) THEN Lookup(data_dict, exp_code)[2] ELSE EmptyStr

SubmittedCode == CodeOf(last.data_dict)

RowAdded == DataRows(PostRows) = DataRows(PreRows) + 1

\* the keys of a record that are no column yet, in the record's order
NewKeys(data_dict, header) ==
    SelectSeq(Keys(data_dict), LAMBDA k : k \notin Range(header))

\* the JSON text of the one table the submitted records carry:
\* [{"type": "Li"}]
LiTableText == <<"[", "{", DQ, "type", DQ, ":", " ", DQ, "Li", DQ, "}", "]">>

\* the text a record's value is expected to leave in its cell
ExpectedCell(data_dict, k) ==
    LET v == Lookup(data_dict, k) IN IF v[1] = "list" THEN LiTableText ELSE v[2]

----------------------------------------------------------------------------
(* Properties *)

\* C1: with the appends run one after another, no two rows of a worksheet
\* hold the same non-empty exp_code; an append whose exp_code is already in
\* the key column below the header returns False, with the collision
\* message when no store call raised, and leaves the rows as they were.
C1_UniquePerCollection ==
    /\ \A w \in Worksheets : NoDuplicateCode(store[w].rows)
    /\ (last.op = "append" /\ SubmittedCode # EmptyStr
            /\ SubmittedCode \in CodesBelowHeader(PreRows))
        => /\ ~last.ok
           /\ PostRows = PreRows
           /\ (~LastFailed => last.msg = Msg("exists", SubmittedCode))

\* a submission rejected for a code held in the second column
C1_Witness ==
    /\ last.op = "append" /\ ~LastFailed
    /\ SubmittedCode # EmptyStr
    /\ SubmittedCode \in CodesBelowHeader(PreRows)
    /\ KeyColumn(PreRows) = 2
    /\ ~last.ok /\ last.msg = Msg("exists", SubmittedCode)

\* the sessions have both returned success for one non-empty exp_code on
\* worksheet w
BothSucceeded(w) ==
    /\ \A i \in Sessions :
        /\ sess[i].pc = "done" /\ sess[i].ok
        /\ sess[i].worksheet_name = w
        /\ CodeOf(sess[i].data_dict) # EmptyStr
    /\ \A i, j \in Sessions : CodeOf(sess[i].data_dict) = CodeOf(sess[j].data_dict)

\* C2: with the store calls of two sessions interleaved, a worksheet comes
\* to hold one non-empty exp_code in two rows only when both sessions have
\* returned success for that same code on that worksheet, and it is their
\* code that sits in the two rows; such a state is reached (C2_Witness).
C2_DuplicateOnlyByDoubleSuccess ==
    \A w \in Worksheets :
        ~NoDuplicateCode(store[w].rows)
            => /\ BothSucceeded(w)
               /\ \A i \in Sessions :
                    Cardinality({r \in 2..Len(store[w].rows) :
                        CodeAt(store[w].rows, r) = CodeOf(sess[i].data_dict)}) = 2

\* both calls read the key column, passed the inline check and returned
\* success, and the code sits in two rows
C2_Witness ==
    \E w \in Worksheets :
        /\ BothSucceeded(w)
        /\ \A i \in Sessions : "col_values" \in Range(sess[i].calls)
        /\ ~NoDuplicateCode(store[w].rows)

\* C3: for the empty key the check answers not available with the
\* empty-key message, whatever the store holds or does and whatever the
\* worksheet name, and makes no store call.
C3_EmptyKeyNotAvailable ==
    (last.op = "check" /\ last.exp_code = EmptyStr)
        => /\ ~last.ok
           /\ last.msg = Msg("empty", EmptyStr)
           /\ last.calls = <<>>

\* the empty key checked against a filled worksheet of an unreachable store
C3_Witness ==
    /\ last.op = "check" /\ last.exp_code = EmptyStr
    /\ last.f = 1
    /\ Len(PreRows) >= 2
    /\ ~last.ok

\* C4: for a non-empty key and a worksheet whose header has the exp_code
\* column (the store answering), the check says available exactly when the
\* key is not among the cells of that column below the header; the header
\* cell is not counted.
C4_AvailableIffAbsent ==
    (last.op = "check" /\ last.exp_code # EmptyStr /\ ~LastFailed
        /\ last.pre[last.worksheet_name].exists /\ HasKeyColumn(PreRows))
        => /\ last.ok <=> last.exp_code \notin CodesBelowHeader(PreRows)
           /\ last.msg = Msg(IF last.ok THEN "available" ELSE "exists", last.exp_code)

\* the text 'exp_code' itself found available while rows exist
C4_Witness ==
    /\ last.op = "check" /\ last.exp_code = exp_code /\ ~LastFailed
    /\ last.pre[last.worksheet_name].exists /\ HasKeyColumn(PreRows)
    /\ Len(PreRows) >= 2
    /\ last.ok

\* C5 as stated: whenever a store call of the check raises (the spreadsheet
\* not found included), the answer is not available with the error message
\* that carries the failure.
C5_AnyFailureNotAvailable ==
    (last.op = "check" /\ last.exp_code # EmptyStr /\ LastFailed)
        => /\ ~last.ok
           /\ last.msg = Msg("check_error", last.calls[Len(last.calls)])

\* C5 amended: a raising store call gives not available with the error
\* message carrying the failure, except that a spreadsheet that is not
\* found gives available with a warning.
C5_FailureNotAvailableUnlessSheetMissing ==
    (last.op = "check" /\ last.exp_code # EmptyStr /\ LastFailed)
        => IF last.f = SheetNotFound
           THEN last.ok /\ last.msg = Msg("sheet_not_found_warning", EmptyStr)
           ELSE ~last.ok /\ last.msg = Msg("check_error", last.calls[Len(last.calls)])

\* the read of the key column raising
C5_Witness ==
    /\ last.op = "check" /\ last.exp_code # EmptyStr
    /\ last.f = 4 /\ LastFailed
    /\ last.calls[Len(last.calls)] = "col_values"
    /\ ~last.ok

\* C6: for a non-empty key (the store answering), the check says available
\* when the worksheet does not exist and when its header, empty or not, has
\* no exp_code column; the key column is not read.
C6_AvailableWithoutKeyColumn ==
    (last.op = "check" /\ last.exp_code # EmptyStr /\ ~LastFailed
        /\ (~last.pre[last.worksheet_name].exists \/ ~HasKeyColumn(PreRows)))
        => /\ last.ok
           /\ "col_values" \notin Range(last.calls)

\* a worksheet with rows and a header without the key column
C6_Witness ==
    /\ last.op = "check" /\ last.exp_code # EmptyStr /\ ~LastFailed
    /\ last.pre[last.worksheet_name].exists
    /\ PreHeader # <<>> /\ ~HasKeyColumn(PreRows)
    /\ Len(PreRows) >= 2
    /\ last.ok

\* what check_exp_code_in_sheet answers for the submitted record on the
\* store the submission started from
InlineCheck ==
    check_exp_code_in_sheet(last.pre, SubmittedCode, last.worksheet_name, last.f)

\* C7 as stated: a submission persists a row only if the check would say
\* available, and fails whenever the check would say not available, the
\* empty key included.
C7_SameAsCheck ==
    last.op = "append"
        => /\ RowAdded => InlineCheck.ok
           /\ ~InlineCheck.ok => (~last.ok /\ ~RowAdded)

\* C7 amended: for a non-empty exp_code a submission persists a row only if
\* the check would say available, fails whenever the check would say not
\* available, and (no store call raising) persists the row when it says
\* available; a record with an empty or missing exp_code, which the check
\* refuses, is persisted without any uniqueness check.
C7_SameAsCheckForNonEmptyKey ==
    last.op = "append"
        => IF SubmittedCode # EmptyStr
           THEN /\ RowAdded => InlineCheck.ok
                /\ ~InlineCheck.ok => (~last.ok /\ ~RowAdded)
                /\ (~LastFailed /\ InlineCheck.ok) => (last.ok /\ RowAdded)
           ELSE /\ ~InlineCheck.ok
                /\ ~LastFailed => (last.ok /\ RowAdded)
                /\ "col_values" \notin Range(last.calls)

\* a submission refused where the check refuses, the key column not first
C7_Witness ==
    /\ last.op = "append" /\ SubmittedCode # EmptyStr /\ ~LastFailed
    /\ HasKeyColumn(PreRows) /\ KeyColumn(PreRows) = 2
    /\ ~InlineCheck.ok
    /\ ~last.ok /\ ~RowAdded

\* the rows persisted before the call keep their cells
RowsKept ==
    /\ Len(PostRows) >= Len(PreRows)
    /\ \A r \in 2..Len(PreRows) : \A c \in 1..Max(Len(PostHeader), Len(PreRows[r])) :
            Cell(PostRows, r, c) = Cell(PreRows, r, c)

\* C8 as stated: for every call (no store call raising) the header before
\* is a prefix of the header after, the added suffix is exactly the
\* record's keys that were no column yet, in the record's order, and the
\* earlier rows keep their cells.
C8_HeaderGrowsByNewKeys ==
    (last.op = "append" /\ ~LastFailed)
        => /\ IsPrefix(PreHeader, PostHeader)
           /\ PostHeader = PreHeader \o NewKeys(last.data_dict, PreHeader)
           /\ RowsKept

\* C8 amended: for every call the header before is a prefix of the header
\* after, the earlier rows keep their cells and the header grows by nothing
\* or by exactly the record's new keys in the record's order; for every call
\* that returns success it grows by exactly those keys.
C8_HeaderGrowsByNewKeysOnSuccess ==
    last.op = "append"
        => /\ IsPrefix(PreHeader, PostHeader)
           /\ RowsKept
           /\ PostHeader \in {PreHeader, PreHeader \o NewKeys(last.data_dict, PreHeader)}
           /\ last.ok => PostHeader = PreHeader \o NewKeys(last.data_dict, PreHeader)

\* a header with rows below it widened by a successful submission
C8_Witness ==
    /\ last.op = "append" /\ last.ok
    /\ Len(PreRows) >= 2
    /\ NewKeys(last.data_dict, PreHeader) # <<>>
    /\ PostHeader = PreHeader \o NewKeys(last.data_dict, PreHeader)
    /\ Len(PostRows[2]) < Len(PostHeader)

\* C9: a successful submission adds exactly one row, aligned to the header
\* as it stands afterwards: with no header before, the header becomes the
\* record's keys and the row its flattened values in the same order;
\* otherwise the row has one cell per header column, the record's flattened
\* value where the record has the key and the empty str where it has not.
C9_OneAlignedRow ==
    (last.op = "append" /\ last.ok)
        => LET n == Len(PostRows)
               row == PostRows[n]
           IN  /\ RowAdded
               /\ n = IF PreHeader = <<>> THEN 2 ELSE Len(PreRows) + 1
               /\ PreHeader = <<>> => PostHeader = Keys(last.data_dict)
               /\ Len(row) = Len(PostHeader)
               /\ \A c \in 1..Len(PostHeader) :
                    row[c] = IF PostHeader[c] \in Range(Keys(last.data_dict))
                             THEN ExpectedCell(last.data_dict, PostHeader[c])
                             ELSE EmptyStr

\* a record in another key order than the header, lacking one of its
\* columns and bringing a table
C9_Witness ==
    /\ last.op = "append" /\ last.ok
    /\ Keys(last.data_dict) = <<cathode_table, exp_code>>
    /\ PreHeader = <<exp_code, date>>
    /\ PostRows[Len(PostRows)] = <<SubmittedCode, EmptyStr, LiTableText>>

\* a str that starts with '[' and ends with ']'
LooksLikeList(s) == Len(s) >= 1 /\ s[1] = "[" /\ s[Len(s)] = "]"

\* the records the round trip is claimed for
InScope(record) ==
    \A i \in 1..Len(record) :
        record[i][2][1] = "str" => ~LooksLikeList(record[i][2][2])

----------------------------------------------------------------------------
(* Failures of the store calls *)

\* the store call of the last operation that raised
RaisedCall == last.calls[Len(last.calls)]

\* the store calls of the last operation that returned before one raised
\* (all of them when none raised)
CallsDone ==
    IF LastFailed THEN SubSeq(last.calls, 1, Len(last.calls) - 1) ELSE last.calls

\* C11: neither operation raises past its boundary.  Whatever store call
\* raises, each returns a boolean and a message; append_to_sheet returns
\* False on every such failure, with the sheet-not-found message exactly
\* when the spreadsheet was not found and the generic message, carrying the
\* failure, otherwise.
C11_NeverRaisePastBoundary ==
    /\ last.op = "check" =>
        /\ last.ok \in BOOLEAN
        /\ last.msg[1] \in {"empty", "sheet_not_found_warning", "check_error",
                            "available_no_worksheet", "no_exp_code_column", "exists",
                            "available"}
    /\ last.op = "append" =>
        /\ last.ok \in BOOLEAN
        /\ last.msg[1] \in {"submit_success", "exists", "gcp_sheet_not_found_error",
                            "submit_gspread_error"}
        /\ LastFailed => ~last.ok
        /\ (last.f = SheetNotFound) <=> (last.msg[1] = "gcp_sheet_not_found_error")
        /\ (LastFailed /\ last.f # SheetNotFound)
            => last.msg = Msg("submit_gspread_error", RaisedCall)
        /\ ~LastFailed => last.msg[1] \in {"submit_success", "exists"}

\* the header update of a submission raised and the call returned False with
\* the generic message
C11_Witness ==
    /\ last.op = "append" /\ LastFailed
    /\ RaisedCall = "update" /\ "col_values" \in Range(CallsDone)
    /\ ~last.ok /\ last.msg = Msg("submit_gspread_error", "update")

\* C17 as stated: a call that returns False leaves the store as it was
\* before the call.
C17_FailureLeavesStoreUnchanged ==
    (last.op = "append" /\ ~last.ok) => store = last.pre

\* C17 amended: a call that returns False appends no row, changes no cell
\* of a row persisted before and touches no other worksheet; the store
\* differs from what it was only by a worksheet the call created (empty) or
\* by the record's new keys added on the right of the header, and only when
\* that store call had returned before a later one raised.
C17_FailureAppendsNoRow ==
    (last.op = "append" /\ ~last.ok) =>
        /\ \A w \in Worksheets \ {last.worksheet_name} : store[w] = last.pre[w]
        /\ DataRows(PostRows) = DataRows(PreRows)
        /\ RowsKept
        /\ store[last.worksheet_name].exists # last.pre[last.worksheet_name].exists
            => /\ "add_worksheet" \in Range(CallsDone)
               /\ PostRows = <<>>
        /\ PostHeader # PreHeader
            => /\ "update" \in Range(CallsDone)
               /\ PostHeader = PreHeader \o NewKeys(last.data_dict, PreHeader)
        /\ ~LastFailed => store = last.pre

\* append_rows raised after the header of a worksheet holding a row was
\* widened: the call returned False and the wider header stays
C17_Witness ==
    /\ last.op = "append" /\ ~last.ok /\ LastFailed
    /\ RaisedCall = "append_rows"
    /\ Len(PreRows) >= 2
    /\ Len(PostHeader) > Len(PreHeader)
    /\ DataRows(PostRows) = DataRows(PreRows)

----------------------------------------------------------------------------
(* The template page *)

TemplateType == config.template.type

\* the last script run rendered the template page
TemplatePageRendered == screen.page = TemplateType

\* the in-progress record, empty when session_state holds none
Record == IF session_state.form_data = Absent THEN <<>> ELSE session_state.form_data[2]

\* the record's value under a key, None when it has none
RecordValue(key) == Get(Record, key, None)

\* the field of the template with this key
FieldOf(key) == DefOf(config.template.fields, key)

\* C12 as stated: after every render pass of the template page the record
\* holds date = today, investigator = the selected operator and topic = the
\* template's name; the record read at a submission holds them too.
C12_AutofillDerivedEveryPass ==
    TemplatePageRendered =>
        /\ RecordValue(date) = Str(screen.inp.today)
        /\ RecordValue(investigator) = session_state.widgets[exp_selector]
        /\ RecordValue(topic) = Str(config.template.name)
        /\ screen.submitted # Absent => screen.submitted = session_state.form_data

\* C13 as stated: the run started by the check button stores in
\* session_state what check_exp_code_in_sheet returns for the exp_code
\* entered and the template's type, and a run started by anything else
\* leaves the stored pair as it is.
C13_CheckButtonCachesResult ==
    /\ [](  (TemplatePageRendered /\ screen.inp.button = "check")
            => LET r == check_exp_code_in_sheet(store, session_state.widgets[exp_code][2],
                                                TemplateType, NoFailure)
               IN  /\ session_state.check_message = r.msg
                   /\ session_state.is_unique = r.ok )
    /\ [][ (session_state.check_message # Absent /\ screen'.inp.button # "check")
            => /\ session_state'.check_message = session_state.check_message
               /\ session_state'.is_unique = session_state.is_unique ]_vars

\* C14 as stated: the pass that opens the template page leaves an empty
\* record (no text, no table row), the record is gone whenever another page
\* is shown, and a submission leaves the record as it read it.
C14_RecordLifecycle ==
    /\ (TemplatePageRendered /\ screen.inp.button = "open_template")
        => /\ RecordValue(exp_code) = Str(EmptyStr)
           /\ RecordValue(cathode_table) = <<"list", <<>> >>
    /\ ~TemplatePageRendered => session_state.form_data = Absent
    /\ screen.inp.button = "submit" => session_state.form_data = screen.submitted

\* C15 as stated: with no template document export_to_word returns an empty
\* stream, and neither caller takes it for a document: the download button
\* is not given empty data without a warning, and the batch export counts no
\* empty stream and warns of it.
C15_MissingTemplateSurfaced ==
    /\ export_to_word(Record, config.template.name, {}) = <<>>
    /\ screen.download = <<>> => "template_missing_warning" \in screen.shown
    /\ screen.inp.button = "generate" => screen.empty_docs = 0

\* C16: after every render pass the record's radio value is one of the
\* declared options; in a pass that renders the radio field without the
\* user changing it, the value is the stored one (the default when none is
\* stored) if that is an option, and the first option otherwise.
C16_RadioClamped ==
    /\ [](TemplatePageRendered => In(RecordValue(cell_type), FieldOf(cell_type).options))
    /\ [][ (screen'.page = TemplateType /\ session_state'.widgets[cell_type] # Absent
                /\ screen'.inp.edit # cell_type)
            => LET current_value == Get(Record, cell_type, FieldOf(cell_type).default)
                   options == FieldOf(cell_type).options
                   now == Lookup(session_state'.form_data[2], cell_type)
               IN  /\ In(current_value, options) => now = current_value
                   /\ ~In(current_value, options) => now = options[1] ]_vars

\* the page opened with a default that is no option: the record holds the
\* first option
C16_Witness ==
    /\ TemplatePageRendered /\ screen.inp.button = "open_template"
    /\ ~In(FieldOf(cell_type).default, FieldOf(cell_type).options)
    /\ RecordValue(cell_type) = FieldOf(cell_type).options[1]

====
